---- MODULE Spec2Model ----
(***************************************************************************)
(* Daily word game backend (word_game_backend/app/routes/game.py).         *)
(*                                                                         *)
(* A Python str is modelled as a sequence of one-character strings, so     *)
(* that strip(), upper(), isalpha() and len() are computed character by    *)
(* character.  A dict object of the store lives in a heap and is named by  *)
(* its address, so that two references to "the same record" can be told    *)
(* from two records with equal contents.                                   *)
(*                                                                         *)
(* Four specifications:                                                    *)
(*   Spec       one request at a time (each handler runs atomically)       *)
(*   SpecConc   request threads interleaving statement by statement        *)
(*   SpecScore  score_guess applied to bounded guess/answer pairs          *)
(*   SpecWord   select_daily_word called repeatedly for each date key       *)
(***************************************************************************)
EXTENDS Integers, Sequences, FiniteSets, TLC

VARIABLES
    clock,      \* days elapsed since the first modelled UTC day
    STORE,      \* STORE[token][date_key] = address of the record dict
    heap,       \* heap[address] = [attempts, finished, won]
    last,       \* the last request answered (Spec): inputs, response, store before
    threads,    \* SpecConc: per request thread, its position and locals
    started,    \* SpecConc: number of requests started so far
    sg          \* SpecScore: [guess, answer, res, won, done]; SpecWord: [key, words]

vars == <<clock, STORE, heap, last, threads, started, sg>>

----------------------------------------------------------------------------
(* Program constants *)

MAX_ATTEMPTS == 5
WORD_LENGTH == 6

WORD_LIST ==
    << <<"O","C","E","A","N","S">>, <<"C","O","R","A","L","S">>,
       <<"P","E","A","R","L","S">>, <<"S","A","I","L","O","R">>,
       <<"M","A","R","I","N","E">>, <<"B","U","B","B","L","E">>,
       <<"D","O","L","P","H","N">>, <<"A","N","C","H","O","R">>,
       <<"T","I","D","E","S","Y">>, <<"R","E","E","F","U","S">>,
       <<"S","E","A","B","E","D">>, <<"B","R","I","G","H","T">>,
       <<"P","U","R","P","L","E">>, <<"P","I","N","K","E","R">>,
       <<"S","M","O","O","T","H">>, <<"S","T","R","E","A","M">>,
       <<"G","L","O","W","E","R">>, <<"W","A","V","I","N","G">>,
       <<"S","P","R","I","T","Z">>, <<"V","I","V","I","F","Y">> >>

----------------------------------------------------------------------------
(* Bounds of the model *)

MaxDay == 1          \* the clock runs over days 0..MaxDay
MaxStored == 6       \* Spec: the attempts stored, over all records
MaxStarted == 3      \* SpecConc: the requests started
MaxCalls == 3        \* SpecWord: the calls of select_daily_word per date key

----------------------------------------------------------------------------
(* Python str operations, character by character *)

LowerChars == <<"a","b","c","d","e","f","g","h","i","j","k","l","m",
                "n","o","p","q","r","s","t","u","v","w","x","y","z">>
UpperChars == <<"A","B","C","D","E","F","G","H","I","J","K","L","M",
                "N","O","P","Q","R","S","T","U","V","W","X","Y","Z">>

Range(s) == {s[i] : i \in DOMAIN s}

\* The letter sharp s (U+00DF): alphabetic, and upper() turns it into "SS"
SharpS == "U+00DF"

\* str.isalpha() of one character: ASCII letters and the letter sharp s
CharIsAlpha(ch) == ch \in Range(LowerChars) \cup Range(UpperChars) \cup {SharpS}

\* str.isspace() of one character
CharIsSpace(ch) == ch \in {" ", "\t", "\n"}

\* str.upper() of one character; the sharp s upper-cases to two characters
CharUpper(ch) ==
    IF ch \in Range(LowerChars)
    THEN <<UpperChars[CHOOSE i \in DOMAIN LowerChars : LowerChars[i] = ch]>>
    ELSE IF ch = SharpS THEN <<"S", "S">> ELSE <<ch>>

RECURSIVE str_upper(_)
str_upper(s) == IF s = <<>> THEN <<>> ELSE CharUpper(Head(s)) \o str_upper(Tail(s))

\* str.isalpha(): non-empty and every character alphabetic
str_isalpha(s) == s # <<>> /\ \A i \in DOMAIN s : CharIsAlpha(s[i])

RECURSIVE str_lstrip(_)
str_lstrip(s) ==
    IF s # <<>> /\ CharIsSpace(Head(s)) THEN str_lstrip(Tail(s)) ELSE s

RECURSIVE str_rstrip(_)
str_rstrip(s) ==
    IF s # <<>> /\ CharIsSpace(s[Len(s)])
    THEN str_rstrip(SubSeq(s, 1, Len(s) - 1)) ELSE s

str_strip(s) == str_rstrip(str_lstrip(s))

----------------------------------------------------------------------------
(* today_key: the UTC calendar day of the clock, formatted %Y%m%d *)

\* datetime.now(timezone.utc) for day n of the modelled window, which starts
\* on 2023-12-30 and so crosses a month and a year boundary
utc_now(n) ==
    IF n < 2 THEN [year |-> 2023, month |-> 12, day |-> 30 + n]
             ELSE [year |-> 2024, month |-> 1, day |-> n - 1]

DigitChar(d) == <<"0","1","2","3","4","5","6","7","8","9">>[d + 1]

\* strftime("%Y%m%d"): four year digits, zero-padded month and day
strftime_Ymd(now) ==
    << DigitChar(now.year \div 1000), DigitChar((now.year \div 100) % 10),
       DigitChar((now.year \div 10) % 10), DigitChar(now.year % 10),
       DigitChar(now.month \div 10), DigitChar(now.month % 10),
       DigitChar(now.day \div 10), DigitChar(now.day % 10) >>

\* The date keys of the modelled days, computed once
TodayKeys == [n \in 0..(MaxDay + 1) |-> strftime_Ymd(utc_now(n))]

\* As today_key, with a clock that stands still on the first day
today_key_stopped(n) == TodayKeys[0]

today_key(n) == TodayKeys[n]

----------------------------------------------------------------------------
(* select_daily_word *)

HexVal(c) ==
    CASE c = "0" -> 0  [] c = "1" -> 1  [] c = "2" -> 2  [] c = "3" -> 3
      [] c = "4" -> 4  [] c = "5" -> 5  [] c = "6" -> 6  [] c = "7" -> 7
      [] c = "8" -> 8  [] c = "9" -> 9  [] c = "a" -> 10 [] c = "b" -> 11
      [] c = "c" -> 12 [] c = "d" -> 13 [] c = "e" -> 14 [] c = "f" -> 15

\* The date keys of the forty days from 2023-12-30 to 2024-02-07
DateKeys ==
    {strftime_Ymd([year |-> 2023, month |-> 12, day |-> d]) : d \in 30..31}
    \cup {strftime_Ymd([year |-> 2024, month |-> 1, day |-> d]) : d \in 1..31}
    \cup {strftime_Ymd([year |-> 2024, month |-> 2, day |-> d]) : d \in 1..7}

\* hashlib.sha256(date_key.encode("utf-8")).hexdigest() for the date keys of
\* DateKeys (the digests are those SHA-256 produces)
sha256_hexdigest(date_key) ==
    CASE date_key = <<"2","0","2","3","1","2","3","0">> ->
           <<"4","0","9","d","9","8","2","3","5","a","9","b","c","6","1","4",
             "7","e","a","e","e","2","3","6","e","8","f","b","a","0","4","a",
             "e","9","2","1","0","a","0","f","6","8","f","5","8","f","0","f",
             "b","f","7","7","1","4","a","2","8","9","c","9","f","a","2","4">>
      [] date_key = <<"2","0","2","3","1","2","3","1">> ->
           <<"8","0","8","4","7","a","7","b","5","9","8","d","1","2","7","7",
             "1","1","e","4","f","e","e","0","3","1","9","7","5","4","3","2",
             "f","0","d","8","a","a","d","0","0","1","d","a","a","7","3","7",
             "7","f","b","1","f","1","5","8","7","d","c","a","9","1","f","b">>
      [] date_key = <<"2","0","2","4","0","1","0","1">> ->
           <<"0","a","5","b","f","f","6","d","9","c","c","8","a","3","e","b",
             "e","1","b","1","2","1","c","8","d","e","f","f","c","8","6","e",
             "a","8","f","d","7","e","3","b","f","4","a","3","7","2","4","6",
             "4","b","0","2","2","5","9","d","0","8","8","1","5","2","6","7">>
      [] date_key = <<"2","0","2","4","0","1","0","2">> ->
           <<"e","f","a","0","a","d","0","f","a","0","2","2","6","2","3","2",
             "6","3","4","0","b","6","3","8","d","7","1","5","a","e","3","e",
             "6","2","3","0","6","c","a","4","1","0","2","6","b","0","7","f",
             "8","c","d","2","3","5","0","e","d","1","a","9","8","f","9","3">>
      [] date_key = <<"2","0","2","4","0","1","0","3">> ->
           <<"7","3","e","8","e","d","f","5","4","d","3","e","7","e","3","2",
             "d","c","2","0","e","3","0","e","e","f","7","0","b","4","2","c",
             "d","d","e","f","5","1","f","2","4","1","6","b","7","f","5","b",
             "d","6","0","4","0","4","5","9","c","4","6","5","b","2","7","d">>
      [] date_key = <<"2","0","2","4","0","1","0","4">> ->
           <<"d","a","c","0","b","b","5","3","3","6","f","a","6","b","f","d",
             "3","9","4","7","9","d","e","c","a","1","f","1","b","4","a","a",
             "e","4","6","3","9","1","4","f","2","3","7","d","7","9","b","0",
             "2","f","4","c","8","d","8","8","e","1","c","8","f","f","a","0">>
      [] date_key = <<"2","0","2","4","0","1","0","5">> ->
           <<"4","c","3","d","c","9","1","1","d","1","a","4","0","0","b","3",
             "a","6","8","7","6","7","2","5","3","c","8","1","6","8","7","1",
             "8","6","8","c","3","e","9","8","6","5","3","1","4","5","4","1",
             "c","e","5","a","3","d","8","f","2","6","a","c","6","9","5","7">>
      [] date_key = <<"2","0","2","4","0","1","0","6">> ->
           <<"c","7","5","9","2","1","a","e","1","c","a","b","6","6","9","2",
             "b","6","f","d","4","0","6","c","c","5","a","e","1","9","2","c",
             "a","a","3","a","2","0","2","9","a","4","3","0","6","c","c","4",
             "2","7","7","9","a","2","3","e","c","7","f","3","a","d","9","c">>
      [] date_key = <<"2","0","2","4","0","1","0","7">> ->
           <<"e","b","b","3","1","7","1","1","8","b","a","9","0","3","e","0",
             "2","3","f","8","e","e","c","2","b","e","3","e","b","b","3","1",
             "1","9","1","a","3","7","4","1","f","5","6","b","f","3","c","0",
             "2","1","e","b","6","c","5","6","3","9","4","7","0","0","4","6">>
      [] date_key = <<"2","0","2","4","0","1","0","8">> ->
           <<"5","6","3","e","a","c","e","9","c","a","4","2","4","f","9","f",
             "b","3","1","8","8","6","8","6","e","3","5","0","1","b","0","6",
             "8","7","0","b","f","7","0","9","9","1","b","8","d","c","c","7",
             "c","1","c","0","c","9","9","3","c","b","7","4","2","7","6","d">>
      [] date_key = <<"2","0","2","4","0","1","0","9">> ->
           <<"5","e","7","1","8","2","e","7","f","7","9","c","e","7","6","e",
             "d","9","2","c","c","d","0","6","1","1","a","f","e","8","e","6",
             "7","8","1","8","2","0","0","b","0","c","7","2","7","c","8","a",
             "9","a","3","5","f","0","d","f","9","2","e","1","b","4","5","c">>
      [] date_key = <<"2","0","2","4","0","1","1","0">> ->
           <<"c","4","9","9","8","7","1","a","1","c","5","6","e","a","1","a",
             "2","9","2","3","2","1","6","0","3","3","2","6","f","0","1","e",
             "b","9","4","e","2","8","6","2","6","c","c","b","0","d","2","7",
             "f","3","5","6","7","5","2","8","2","1","1","e","6","a","d","7">>
      [] date_key = <<"2","0","2","4","0","1","1","1">> ->
           <<"c","3","e","7","5","7","5","7","0","c","5","2","f","0","1","4",
             "2","d","e","5","b","1","9","a","4","7","e","7","6","f","7","9",
             "d","0","c","1","9","5","6","3","d","b","d","1","7","e","d","e",
             "6","b","2","4","8","5","e","2","8","3","8","1","f","a","1","9">>
      [] date_key = <<"2","0","2","4","0","1","1","2">> ->
           <<"7","7","3","f","5","d","7","5","b","1","4","9","f","3","c","2",
             "b","e","7","6","f","3","3","a","8","6","4","5","0","d","8","5",
             "4","5","e","5","5","7","c","d","3","b","9","8","9","0","8","e",
             "a","2","5","b","1","5","6","e","7","3","9","8","a","a","c","8">>
      [] date_key = <<"2","0","2","4","0","1","1","3">> ->
           <<"6","6","7","e","5","5","e","9","c","6","1","6","7","c","3","2",
             "8","0","5","8","2","9","5","7","1","f","b","7","c","e","7","0",
             "4","6","1","9","6","c","6","b","5","8","2","d","4","2","8","d",
             "5","b","7","3","6","3","4","1","c","f","d","a","b","3","e","f">>
      [] date_key = <<"2","0","2","4","0","1","1","4">> ->
           <<"7","3","1","f","a","6","b","b","e","c","d","6","3","a","8","9",
             "e","2","c","0","a","9","1","1","a","2","9","6","0","c","1","6",
             "a","e","1","b","2","4","8","f","b","5","5","f","3","6","8","3",
             "d","e","9","6","f","8","9","7","3","1","5","b","5","e","e","1">>
      [] date_key = <<"2","0","2","4","0","1","1","5">> ->
           <<"a","7","9","c","8","3","1","e","c","2","5","f","6","2","d","9",
             "e","f","4","1","d","e","0","9","e","1","c","c","0","2","0","9",
             "1","5","9","e","e","d","c","5","e","9","d","a","5","6","c","4",
             "c","e","a","8","b","8","b","c","5","1","e","a","9","9","c","6">>
      [] date_key = <<"2","0","2","4","0","1","1","6">> ->
           <<"d","6","b","f","a","1","8","6","0","b","1","1","7","8","d","9",
             "a","a","9","c","6","4","a","2","b","f","a","0","c","b","8","3",
             "7","c","5","e","d","8","9","d","f","5","d","5","0","b","7","0",
             "a","3","b","5","d","b","3","9","9","4","a","0","4","f","d","5">>
      [] date_key = <<"2","0","2","4","0","1","1","7">> ->
           <<"2","a","6","4","b","0","4","e","4","8","b","3","4","e","d","7",
             "7","9","a","a","e","b","7","e","e","e","f","6","4","e","a","3",
             "9","b","0","8","4","8","d","d","b","7","1","4","2","b","9","b",
             "2","5","8","0","7","2","3","8","6","4","e","9","0","c","6","9">>
      [] date_key = <<"2","0","2","4","0","1","1","8">> ->
           <<"a","8","7","e","9","5","4","c","b","c","d","a","e","2","8","4",
             "a","c","6","6","d","0","b","f","3","d","0","f","6","9","a","4",
             "6","3","3","1","9","6","2","f","1","5","3","4","9","7","a","0",
             "7","c","1","6","8","8","d","6","0","3","e","9","3","d","0","0">>
      [] date_key = <<"2","0","2","4","0","1","1","9">> ->
           <<"c","7","1","e","2","7","1","b","7","1","3","0","0","4","f","6",
             "c","8","b","b","4","1","8","4","2","1","2","d","9","8","6","0",
             "a","7","2","0","c","d","8","8","d","c","2","1","9","3","5","6",
             "f","b","4","e","4","f","4","3","6","3","3","d","6","a","f","4">>
      [] date_key = <<"2","0","2","4","0","1","2","0">> ->
           <<"1","1","5","a","3","4","5","4","c","a","5","b","6","7","1","b",
             "e","0","4","8","e","3","2","6","6","a","7","c","a","e","6","b",
             "3","7","1","d","4","6","a","7","f","2","1","f","1","e","5","1",
             "a","3","b","f","8","a","7","e","3","c","e","0","a","c","1","2">>
      [] date_key = <<"2","0","2","4","0","1","2","1">> ->
           <<"9","5","2","7","0","9","3","4","c","4","7","0","3","5","a","4",
             "d","c","6","2","d","5","c","3","e","d","6","3","6","7","e","e",
             "9","8","7","7","e","2","f","6","e","e","1","1","4","7","0","6",
             "4","e","c","4","f","6","4","5","7","3","9","b","4","6","9","f">>
      [] date_key = <<"2","0","2","4","0","1","2","2">> ->
           <<"a","8","8","e","0","b","f","8","d","6","3","a","e","0","1","f",
             "5","2","b","c","e","6","3","5","5","b","4","3","3","3","b","6",
             "9","7","0","d","d","8","7","5","3","8","6","c","5","7","8","4",
             "b","3","b","8","9","b","6","c","3","a","e","e","4","6","e","4">>
      [] date_key = <<"2","0","2","4","0","1","2","3">> ->
           <<"c","0","a","d","c","7","9","2","d","e","9","8","b","0","1","f",
             "b","e","5","d","d","7","5","5","7","6","8","c","2","a","9","5",
             "1","6","1","b","3","2","6","0","f","0","1","f","d","4","f","a",
             "b","9","8","2","5","5","4","0","d","8","d","d","c","9","e","f">>
      [] date_key = <<"2","0","2","4","0","1","2","4">> ->
           <<"b","2","c","0","e","1","7","d","6","9","d","9","2","1","d","d",
             "7","2","3","0","f","4","6","5","7","8","0","3","0","d","0","a",
             "6","5","c","c","d","e","d","c","6","6","c","5","4","d","0","7",
             "5","c","5","b","e","3","2","f","f","8","5","c","b","b","2","1">>
      [] date_key = <<"2","0","2","4","0","1","2","5">> ->
           <<"6","7","2","9","b","b","e","5","b","e","f","f","2","a","5","1",
             "5","3","9","d","9","5","a","6","2","8","b","5","c","9","5","f",
             "f","d","9","f","4","2","a","5","c","d","e","5","d","0","4","d",
             "8","3","7","e","1","a","9","5","9","c","5","0","5","0","2","3">>
      [] date_key = <<"2","0","2","4","0","1","2","6">> ->
           <<"b","7","5","4","7","c","5","e","6","f","c","3","d","0","2","2",
             "a","1","3","f","b","4","5","6","4","e","f","9","0","d","1","2",
             "8","f","3","2","6","2","3","8","9","9","8","e","3","f","2","a",
             "f","2","d","a","7","f","1","e","8","e","1","f","6","c","a","b">>
      [] date_key = <<"2","0","2","4","0","1","2","7">> ->
           <<"f","3","6","a","f","5","3","6","6","7","6","e","5","8","8","c",
             "1","7","d","b","8","b","8","d","2","5","2","7","c","e","8","e",
             "d","a","b","8","c","3","0","2","8","6","2","8","5","7","3","3",
             "4","3","7","d","3","c","c","4","b","6","2","6","c","1","f","8">>
      [] date_key = <<"2","0","2","4","0","1","2","8">> ->
           <<"7","1","6","9","c","3","9","d","e","5","7","4","a","8","0","2",
             "6","d","0","c","d","8","4","f","4","f","7","7","9","4","b","5",
             "c","4","d","2","e","8","b","5","8","2","7","e","9","3","6","3",
             "c","3","2","9","5","6","f","8","4","3","5","7","6","8","0","3">>
      [] date_key = <<"2","0","2","4","0","1","2","9">> ->
           <<"6","5","6","7","4","9","a","c","9","4","9","4","8","7","3","3",
             "3","4","0","b","9","b","9","5","7","0","b","6","f","0","a","1",
             "c","e","c","d","8","a","a","a","a","b","7","e","e","d","8","c",
             "8","6","b","9","0","8","a","b","d","0","8","5","d","7","1","b">>
      [] date_key = <<"2","0","2","4","0","1","3","0">> ->
           <<"3","e","1","7","4","d","4","d","b","0","6","7","4","b","c","0",
             "9","7","2","b","9","e","c","c","1","8","8","a","1","d","3","a",
             "b","e","5","4","e","2","e","b","7","b","0","d","d","c","2","8",
             "d","9","8","0","b","e","4","c","e","4","5","5","4","b","2","0">>
      [] date_key = <<"2","0","2","4","0","1","3","1">> ->
           <<"f","4","9","d","4","c","7","2","a","a","b","5","3","e","d","c",
             "c","9","9","4","b","e","5","e","8","b","9","e","8","d","8","7",
             "4","0","9","f","4","5","0","3","6","4","8","3","f","7","2","4",
             "9","f","5","c","3","1","b","f","1","4","d","8","3","c","4","0">>
      [] date_key = <<"2","0","2","4","0","2","0","1">> ->
           <<"7","b","f","f","2","c","4","f","9","6","7","6","6","d","6","c",
             "0","8","b","f","8","d","d","6","9","e","f","9","a","d","c","b",
             "b","0","7","2","c","6","a","3","9","e","3","c","f","2","4","b",
             "f","d","7","c","f","a","2","5","3","f","c","d","a","4","a","2">>
      [] date_key = <<"2","0","2","4","0","2","0","2">> ->
           <<"0","e","9","6","b","6","7","6","6","3","4","6","b","d","a","5",
             "9","0","8","7","8","1","1","f","a","7","0","4","4","2","4","f",
             "2","7","d","e","6","e","1","3","e","5","7","3","9","5","4","8",
             "f","6","5","6","c","c","a","4","b","5","0","7","b","5","8","c">>
      [] date_key = <<"2","0","2","4","0","2","0","3">> ->
           <<"3","f","7","a","2","c","a","c","b","6","f","3","d","3","8","0",
             "0","8","8","4","3","2","1","c","6","f","0","7","c","3","f","f",
             "b","f","e","6","2","a","b","5","c","d","a","8","a","0","0","f",
             "1","8","e","e","0","3","b","d","4","e","3","d","e","f","a","c">>
      [] date_key = <<"2","0","2","4","0","2","0","4">> ->
           <<"1","7","a","7","f","b","7","9","c","c","0","b","6","5","f","8",
             "b","9","5","d","4","6","3","1","7","c","1","5","9","6","9","b",
             "5","1","a","8","e","5","0","b","e","3","3","8","b","f","9","6",
             "b","9","b","7","2","4","d","e","e","8","c","e","8","2","1","3">>
      [] date_key = <<"2","0","2","4","0","2","0","5">> ->
           <<"6","8","d","4","7","5","c","a","2","8","e","7","d","0","5","1",
             "c","9","2","4","d","8","1","0","e","d","3","2","3","a","0","5",
             "a","4","d","9","5","c","a","f","a","e","5","c","b","0","e","e",
             "1","e","c","a","7","5","a","0","3","4","c","6","5","4","6","5">>
      [] date_key = <<"2","0","2","4","0","2","0","6">> ->
           <<"7","8","e","f","c","a","9","9","5","e","6","e","9","2","4","6",
             "4","5","c","c","a","f","5","6","8","4","7","2","1","0","6","a",
             "7","f","d","0","e","e","4","6","5","0","9","5","6","d","6","a",
             "f","0","6","9","9","7","e","3","9","e","f","a","f","3","8","f">>
      [] date_key = <<"2","0","2","4","0","2","0","7">> ->
           <<"c","3","b","1","6","7","2","0","3","1","0","a","8","7","3","5",
             "8","5","9","e","1","6","c","c","2","8","5","7","a","a","7","5",
             "b","3","e","7","b","6","a","c","4","6","1","7","4","c","f","4",
             "a","6","1","4","4","7","c","a","0","c","b","2","5","d","e","1">>

\* b^e % m by repeated squaring
RECURSIVE PowMod(_, _, _)
PowMod(b, e, m) ==
    IF e = 0 THEN 1 % m
    ELSE LET half == PowMod(b, e \div 2, m)
         IN  (((half * half) % m) * (IF e % 2 = 1 THEN b ELSE 1)) % m

\* As HexMod, without the reduction: the value of the digest's low byte
HexMod_lowbyte(h, m) == HexVal(h[Len(h) - 1]) * 16 + HexVal(h[Len(h)])

\* int(h, 16) % m for a digest too wide for the model's integers: the value
\* of h is hi * 16^Len(lo) + lo, reduced modulo m at every step
RECURSIVE HexMod(_, _)
HexMod(h, m) ==
    IF Len(h) = 0 THEN 0
    ELSE IF Len(h) = 1 THEN HexVal(h[1]) % m
    ELSE LET k == Len(h) \div 2
             hi == SubSeq(h, 1, k)
             lo == SubSeq(h, k + 1, Len(h))
         IN  (HexMod(hi, m) * PowMod(16, Len(lo), m) + HexMod(lo, m)) % m

\* What WORD_LIST[idx] raises for an index outside the list
IndexError == <<"IndexError">>

\* select_daily_word, lines 37-39; list positions count from 1 here
daily_word(date_key) ==
    LET h == sha256_hexdigest(date_key)
        idx == HexMod(h, Len(WORD_LIST))
    IN  IF idx + 1 \in DOMAIN WORD_LIST THEN str_upper(WORD_LIST[idx + 1]) ELSE IndexError

\* The words of the date keys, computed once
DailyWords == [k \in DateKeys |-> daily_word(k)]

select_daily_word(date_key) == DailyWords[date_key]

----------------------------------------------------------------------------
(* score_guess *)

None == "None"

\* list.index(ch): the first position holding ch
list_index(l, ch) == CHOOSE i \in DOMAIN l : l[i] = ch /\ \A j \in 1..(i - 1) : l[j] # ch

\* As first_pass, but a letter is green when the answer holds it anywhere
RECURSIVE first_pass_anywhere(_, _, _, _)
first_pass_anywhere(guess, answer, i, st) ==
    IF i > Len(guess) THEN st
    ELSE IF guess[i] \in Range(answer)
         THEN first_pass_anywhere(guess, answer, i + 1,
                         [res |-> [st.res EXCEPT ![i] = "green"],
                          answer_chars |-> [st.answer_chars EXCEPT ![i] = None]])
         ELSE first_pass_anywhere(guess, answer, i + 1, st)

\* First pass (greens) from position i on; st = [res, answer_chars]
RECURSIVE first_pass(_, _, _, _)
first_pass(guess, answer, i, st) ==
    IF i > Len(guess) THEN st
    ELSE IF answer[i] = guess[i]
         THEN first_pass(guess, answer, i + 1,
                         [res |-> [st.res EXCEPT ![i] = "green"],
                          answer_chars |-> [st.answer_chars EXCEPT ![i] = None]])
         ELSE first_pass(guess, answer, i + 1, st)

\* As second_pass, but a yellow does not consume the answer's letter
RECURSIVE second_pass_unconsumed(_, _, _)
second_pass_unconsumed(guess, i, st) ==
    IF i > Len(guess) THEN st
    ELSE IF st.res[i] # "green" /\ guess[i] \in Range(st.answer_chars)
         THEN second_pass_unconsumed(guess, i + 1,
                     [res |-> [st.res EXCEPT ![i] = "yellow"],
                      answer_chars |-> st.answer_chars])
         ELSE second_pass_unconsumed(guess, i + 1, st)

\* Second pass (yellows) from position i on
RECURSIVE second_pass(_, _, _)
second_pass(guess, i, st) ==
    IF i > Len(guess) THEN st
    ELSE IF st.res[i] = "green"
         THEN second_pass(guess, i + 1, st)
         ELSE IF guess[i] \in Range(st.answer_chars)
              THEN second_pass(guess, i + 1,
                     [res |-> [st.res EXCEPT ![i] = "yellow"],
                      answer_chars |->
                         [st.answer_chars EXCEPT
                             ![list_index(st.answer_chars, guess[i])] = None]])
              ELSE second_pass(guess, i + 1, st)

score_guess(guess, answer) ==
    LET st0 == [res |-> [i \in 1..WORD_LENGTH |-> "grey"], answer_chars |-> answer]
        st1 == first_pass(guess, answer, 1, st0)
        st2 == second_pass(guess, 1, st1)
    IN  st2.res

----------------------------------------------------------------------------
(* The store *)

EmptyDict == <<>>

NewRecord == [attempts |-> <<>>, finished |-> FALSE, won |-> FALSE]

\* The address of a newly created record dict: one no object of the heap has.
\* Objects are named by the key they were created for and a serial number.
NewAddress(H, token, date) ==
    <<token, date, Cardinality({a \in DOMAIN H : a[1] = token /\ a[2] = date}) + 1>>

\* As get_state_for_today, without the membership test of line 52: the
\* record is created anew at every call
get_state_for_today_anew(S, H, token, date) ==
    LET S1 == IF token \in DOMAIN S THEN S ELSE (token :> EmptyDict) @@ S
        addr == NewAddress(H, token, date)
    IN  [STORE |-> [S1 EXCEPT ![token] = (date :> addr) @@ @],
         heap |-> (addr :> NewRecord) @@ H,
         state |-> addr]

\* As get_state_for_today, with the store keyed by the date alone: every
\* session is given the record of the first session stored
get_state_for_today_shared(S, H, token, date) ==
    LET owner == IF DOMAIN S = {} THEN token ELSE CHOOSE t \in DOMAIN S : TRUE
        S1 == IF owner \in DOMAIN S THEN S ELSE (owner :> EmptyDict) @@ S
        fresh == date \notin DOMAIN S1[owner]
        addr == NewAddress(H, owner, date)
        H1 == IF fresh THEN (addr :> NewRecord) @@ H ELSE H
        S2 == IF fresh THEN [S1 EXCEPT ![owner] = (date :> addr) @@ @] ELSE S1
    IN  [STORE |-> S2, heap |-> H1, state |-> S2[owner][date]]

\* get_state_for_today run without interruption, the date already read:
\* the store and heap after it, and the address it returns
get_state_for_today(S, H, token, date) ==
    LET S1 == IF token \in DOMAIN S THEN S ELSE (token :> EmptyDict) @@ S
        fresh == date \notin DOMAIN S1[token]
        addr == NewAddress(H, token, date)
        H1 == IF fresh THEN (addr :> NewRecord) @@ H ELSE H
        S2 == IF fresh THEN [S1 EXCEPT ![token] = (date :> addr) @@ @] ELSE S1
    IN  [STORE |-> S2, heap |-> H1, state |-> S2[token][date]]

\* ensure_token: the cookie's token, or a newly generated one when the
\* cookie is missing or empty
NoCookie == ""
Tokens == {"t1", "t2"}
ensure_token(cookie, generated) == IF cookie = NoCookie THEN generated ELSE cookie

----------------------------------------------------------------------------
(* Request validation *)

\* GuessRequestSchema: the field validator (on the raw string) and the
\* @validates("guess") hook (on the stripped string) must both pass
field_validate(s) == Len(s) = WORD_LENGTH /\ str_isalpha(s)

validate_guess(value) ==
    LET v == str_strip(value) IN ~(Len(v) # WORD_LENGTH \/ ~str_isalpha(v))

GuessRequestSchema(raw) == field_validate(raw) /\ validate_guess(raw)

\* As normalise, but cut to WORD_LENGTH characters
normalise_truncating(guess_raw) ==
    LET g == str_upper(str_strip(guess_raw))
    IN  IF Len(g) > WORD_LENGTH THEN SubSeq(g, 1, WORD_LENGTH) ELSE g

\* GameGuess.post, lines 182-183
normalise(guess_raw) == str_upper(str_strip(guess_raw))

\* GameGuess.post, line 185
guess_invalid(guess) == Len(guess) # WORD_LENGTH \/ ~str_isalpha(guess)

----------------------------------------------------------------------------
(* The handlers' responses *)

Msg(text, args) == [text |-> text, args |-> args]

\* As all_green, with any() in place of all()
all_green_any(feedback) == \E i \in DOMAIN feedback : feedback[i] = "green"

\* GameGuess.post, line 191
all_green(feedback) == \A i \in DOMAIN feedback : feedback[i] = "green"

\* As status_of, testing finished before won
status_of_finished_first(state) ==
    IF state.finished THEN "lost"
    ELSE IF state.won THEN "won" ELSE "in_progress"

\* GameStatus.get, line 136
status_of(state) ==
    IF state.won THEN "won"
    ELSE IF state.finished /\ ~state.won THEN "lost" ELSE "in_progress"

\* GameStatus.get, line 137
status_message(status, answer) ==
    IF status = "in_progress" THEN Msg("Make your guess!", <<>>)
    ELSE IF status = "won" THEN Msg("You won!", <<>>)
    ELSE Msg("Out of attempts. The word was {answer}.", <<answer>>)

\* GameStatus.get, lines 130-147: the payload built from the record
status_payload(state, date, answer) ==
    LET status == status_of(state) IN
    [date |-> date,
     attempts |-> [i \in DOMAIN state.attempts |-> state.attempts[i].feedback],
     guesses |-> [i \in DOMAIN state.attempts |-> state.attempts[i].guess],
     attempts_used |-> Len(state.attempts),
     max_attempts |-> MAX_ATTEMPTS,
     status |-> status,
     message |-> status_message(status, answer)]

\* GameGuess.post, lines 171-180: the response for a finished record
finished_payload(state) ==
    [feedback |-> <<>>,
     attempts_used |-> Len(state.attempts),
     max_attempts |-> MAX_ATTEMPTS,
     status |-> IF state.won THEN "won" ELSE "lost",
     message |-> Msg("Game already finished for today.", <<>>)]

\* As list_append, at the front
list_append_front(l, x) == <<x>> \o l

\* list.append (GameGuess.post, line 189)
list_append(l, x) == Append(l, x)

\* As attempts_exhausted, off by one
attempts_exhausted_late(n) == n > MAX_ATTEMPTS

\* GameGuess.post, line 197
attempts_exhausted(n) == n >= MAX_ATTEMPTS

\* GameGuess.post, lines 188-213 run without interruption on the record
\* `state`: the record after, and the response
apply_guess(state, guess, answer) ==
    LET feedback == score_guess(guess, answer)
        appended == [state EXCEPT !.attempts = list_append(@, [guess |-> guess, feedback |-> feedback])]
        won == all_green(feedback)
        lost == ~won /\ attempts_exhausted(Len(appended.attempts))
        after == IF won THEN [appended EXCEPT !.finished = TRUE, !.won = TRUE]
                 ELSE IF lost THEN [appended EXCEPT !.finished = TRUE, !.won = FALSE]
                 ELSE appended
    IN  [state |-> after,
         payload |->
            [feedback |-> feedback,
             attempts_used |-> Len(after.attempts),
             max_attempts |-> MAX_ATTEMPTS,
             status |-> IF won THEN "won" ELSE IF lost THEN "lost" ELSE "in_progress",
             message |-> IF won THEN Msg("Correct!", <<>>)
                         ELSE IF lost THEN Msg("No attempts left. The word was {answer}.", <<answer>>)
                         ELSE Msg("Good try! Keep going.", <<>>)]]

\* As post_on_record, without the finished check of lines 171-180
post_on_record_unchecked(state, guess_raw, answer) ==
    LET guess == normalise(guess_raw) IN
    IF guess_invalid(guess)
    THEN [state |-> state, outcome |-> "validation_error",
          payload |-> Msg("Guess must be exactly {WORD_LENGTH} letters.", <<WORD_LENGTH>>)]
    ELSE LET r == apply_guess(state, guess, answer)
         IN  [state |-> r.state, outcome |-> "ok", payload |-> r.payload]

\* As post_on_record, with the finished check letting won records through
post_on_record_won_open(state, guess_raw, answer) ==
    IF state.finished /\ ~state.won
    THEN [state |-> state, outcome |-> "ok", payload |-> finished_payload(state)]
    ELSE post_on_record_unchecked(state, guess_raw, answer)

\* GameGuess.post, lines 171-213, on the record `state` it obtained:
\* [state after, outcome, payload]
post_on_record(state, guess_raw, answer) ==
    IF state.finished
    THEN [state |-> state, outcome |-> "ok", payload |-> finished_payload(state)]
    ELSE LET guess == normalise(guess_raw) IN
         IF guess_invalid(guess)
         THEN [state |-> state, outcome |-> "validation_error",
               payload |-> Msg("Guess must be exactly {WORD_LENGTH} letters.", <<WORD_LENGTH>>)]
         ELSE LET r == apply_guess(state, guess, answer)
              IN  [state |-> r.state, outcome |-> "ok", payload |-> r.payload]

----------------------------------------------------------------------------
(* Requests, one at a time (Spec) *)

NoRequest == [op |-> "none"]

Cookies == Tokens \cup {NoCookie}

\* The tokens ensure_token can produce for a cookie: the cookie's own, or a
\* newly generated one, which names no session of the store
GeneratedTokens(cookie) ==
    IF cookie = NoCookie THEN Tokens \ DOMAIN STORE ELSE {cookie}

\* The raw guesses submitted
RawGuesses ==
    { <<"P","U","R","P","L","E">>,                  \* the word of day 0
      <<"s","t","r","e","a","m">>,                  \* the word of day 1, in lower case
      <<" ","P","U","R","P","L","E"," ">>,          \* six letters in whitespace
      <<"A","B">>,                                  \* too short
      <<"O","C","E","A","N","1">>,                  \* a non-letter
      <<"s","t","r","a",SharpS,"e">> }              \* six letters, seven once upper-cased

\* The raw guesses GuessRequestSchema lets through to the handler
SchemaAccepted == {raw \in RawGuesses : GuessRequestSchema(raw)}

\* The days the clock can show at a later reading within one request
LaterReadings == {d \in {clock, clock + 1} : d <= MaxDay}

TotalStored(H) ==
    LET RECURSIVE Sum(_)
        Sum(D) == IF D = {} THEN 0
                  ELSE LET a == CHOOSE x \in D : TRUE
                       IN  Len(H[a].attempts) + Sum(D \ {a})
    IN  Sum(DOMAIN H)

\* The UTC day changes
Tick ==
    /\ last.op = "none"
    /\ clock < MaxDay
    /\ clock' = clock + 1
    /\ UNCHANGED <<STORE, heap, last, threads, started, sg>>

\* GET /api/status: GameStatus.get; the handler reads the date (line 126),
\* get_state_for_today reads it again (line 49), at day d2
StatusRequest ==
    \E cookie \in Cookies, d2 \in LaterReadings :
    \E token \in GeneratedTokens(cookie) :
        /\ last.op = "none"
        /\ LET date == today_key(clock)
               answer == select_daily_word(date)
               gs == get_state_for_today(STORE, heap, ensure_token(cookie, token), today_key(d2))
           IN  /\ STORE' = gs.STORE
               /\ heap' = gs.heap
               /\ clock' = d2
               /\ last' = [op |-> "status", cookie |-> cookie, token |-> token,
                           raw |-> <<>>, date |-> date, sdate |-> today_key(d2),
                           outcome |-> "ok",
                           payload |-> status_payload(gs.heap[gs.state], date, answer),
                           set_cookie |-> (cookie = NoCookie),
                           pre |-> [STORE |-> STORE, heap |-> heap]]
        /\ UNCHANGED <<threads, started, sg>>

\* POST /api/guess rejected by GuessRequestSchema (blp.arguments, line 162):
\* the handler is not entered
GuessRejectedBySchema ==
    \E cookie \in Tokens, raw \in RawGuesses \ SchemaAccepted :
        /\ last.op = "none"
        /\ last' = [op |-> "guess", cookie |-> cookie, token |-> cookie,
                    raw |-> raw, date |-> today_key(clock), sdate |-> today_key(clock),
                    outcome |-> "unprocessable",
                    payload |-> Msg("Guess must be exactly {WORD_LENGTH} letters.", <<WORD_LENGTH>>),
                    set_cookie |-> FALSE,
                    pre |-> [STORE |-> STORE, heap |-> heap]]
        /\ UNCHANGED <<clock, STORE, heap, threads, started, sg>>

\* POST /api/guess passing the schema: GameGuess.post
GuessRequest ==
    \E cookie \in Cookies, raw \in SchemaAccepted, d2 \in LaterReadings :
    \E token \in GeneratedTokens(cookie) :
        /\ last.op = "none"
        /\ LET date == today_key(clock)
               answer == select_daily_word(date)
               gs == get_state_for_today(STORE, heap, ensure_token(cookie, token), today_key(d2))
               r == post_on_record(gs.heap[gs.state], raw, answer)
               H == [gs.heap EXCEPT ![gs.state] = r.state]
           IN  /\ TotalStored(H) <= MaxStored
               /\ STORE' = gs.STORE
               /\ heap' = H
               /\ clock' = d2
               /\ last' = [op |-> "guess", cookie |-> cookie, token |-> token,
                           raw |-> raw, date |-> date, sdate |-> today_key(d2),
                           outcome |-> r.outcome,
                           payload |-> r.payload,
                           set_cookie |-> (r.outcome = "ok" /\ ~gs.heap[gs.state].finished
                                           /\ cookie = NoCookie),
                           pre |-> [STORE |-> STORE, heap |-> heap]]
        /\ UNCHANGED <<threads, started, sg>>

\* The response reaches the client; the next request can be served
Deliver ==
    /\ last.op # "none"
    /\ last' = NoRequest
    /\ UNCHANGED <<clock, STORE, heap, threads, started, sg>>

\* A request thread serving no request
Threads == {1, 2}
Idle == [pc |-> "idle", op |-> "none", token |-> NoCookie, raw |-> <<>>,
         date |-> <<>>, answer |-> <<>>, gdate |-> <<>>, state |-> <<>>,
         feedback |-> <<>>, status |-> "none", resp |-> [outcome |-> "none"]]

NoScore == [guess |-> <<>>, answer |-> <<>>, res |-> <<>>, won |-> FALSE, done |-> FALSE]

Init ==
    /\ clock = 0
    /\ STORE = EmptyDict
    /\ heap = EmptyDict
    /\ last = NoRequest
    /\ threads = [p \in Threads |-> Idle]
    /\ started = 0
    /\ sg = NoScore

----------------------------------------------------------------------------
(* score_guess on bounded inputs (SpecScore) *)

ScoreLetters == {"A", "B", "C"}

\* Every word of WORD_LENGTH upper-case letters over ScoreLetters
ScoreWords == [1..WORD_LENGTH -> ScoreLetters]

InitScore ==
    /\ clock = 0
    /\ STORE = EmptyDict
    /\ heap = EmptyDict
    /\ last = NoRequest
    /\ threads = [p \in Threads |-> Idle]
    /\ started = 0
    /\ sg \in [guess : ScoreWords, answer : ScoreWords, res : {<<>>},
                won : {FALSE}, done : {FALSE}]

\* One call of score_guess(guess, answer), and the handler's test of its
\* result (GameGuess.post, lines 188 and 191)
Score ==
    /\ ~sg.done
    /\ LET feedback == score_guess(sg.guess, sg.answer) IN
       sg' = [sg EXCEPT !.res = feedback, !.won = all_green(feedback), !.done = TRUE]
    /\ UNCHANGED <<clock, STORE, heap, last, threads, started>>

NextScore == Score

SpecScore == InitScore /\ [][NextScore]_vars

Positions == 1..WORD_LENGTH

\* C9: score_guess returns WORD_LENGTH colours, all of them green exactly
\* when the guess equals the answer, and the handler takes the guess for a
\* win exactly then.
C9_ScoreShapeAndWin ==
    sg.done =>
        /\ DOMAIN sg.res = Positions
        /\ \A i \in Positions : sg.res[i] \in {"green", "yellow", "grey"}
        /\ (\A i \in Positions : sg.res[i] = "green") <=> (sg.guess = sg.answer)
        /\ sg.won <=> (sg.guess = sg.answer)

\* C9 witness: a guess equal to its answer was scored all green.
C9_Witness ==
    /\ sg.done /\ sg.guess = sg.answer /\ sg.won
    /\ \A i \in Positions : sg.res[i] = "green"

\* Positions of letter c in the guess: matched in place, not matched in
\* place, marked yellow; positions of c in the answer not matched in place
InPlace(c) == {i \in Positions : sg.guess[i] = c /\ sg.answer[i] = c}
OutOfPlace(c) == {i \in Positions : sg.guess[i] = c /\ sg.answer[i] # c}
Unmatched(c) == {i \in Positions : sg.answer[i] = c /\ sg.guess[i] # c}
Yellows(c) == {i \in Positions : sg.guess[i] = c /\ sg.res[i] = "yellow"}

Smaller(a, b) == IF a <= b THEN a ELSE b

\* C10: for every letter c, the greens of c are the positions where guess
\* and answer both hold c; the yellows of c are the leftmost
\* min(|out-of-place c in the guess|, |unmatched c in the answer|)
\* out-of-place occurrences; the other occurrences are grey.
C10_DuplicateLetters ==
    sg.done =>
        \A c \in Range(sg.guess) \cup Range(sg.answer) :
            /\ {i \in Positions : sg.guess[i] = c /\ sg.res[i] = "green"} = InPlace(c)
            /\ Yellows(c) \subseteq OutOfPlace(c)
            /\ Cardinality(Yellows(c)) =
                   Smaller(Cardinality(OutOfPlace(c)), Cardinality(Unmatched(c)))
            /\ \A i \in Yellows(c) : \A j \in OutOfPlace(c) \ Yellows(c) : i < j
            /\ \A j \in OutOfPlace(c) \ Yellows(c) : sg.res[j] = "grey"

\* C10 witness: one letter of a scored guess is green at one position,
\* yellow at another and grey at a third.
C10_Witness ==
    /\ sg.done
    /\ \E c \in Range(sg.guess) :
          /\ InPlace(c) # {} /\ Yellows(c) # {}
          /\ OutOfPlace(c) \ Yellows(c) # {}

----------------------------------------------------------------------------

Next == Tick \/ StatusRequest \/ GuessRejectedBySchema \/ GuessRequest \/ Deliver

Spec == Init /\ [][Next]_vars

----------------------------------------------------------------------------
(* Request threads interleaving statement by statement (SpecConc).         *)
(* A step is one access to the clock, the store or a record; the local     *)
(* computation that follows an access belongs to its step.  The threads    *)
(* serve one session within one UTC day; requests the schema rejects      *)
(* never enter a handler and are left out.  The threads start from a      *)
(* store that earlier requests, served one at a time, have left.          *)

ConcToken == "t1"

Set(p, t) == threads' = [threads EXCEPT ![p] = t]

\* GameStatus.get, lines 125-127
StartStatus(p) ==
    /\ threads[p].pc = "idle"
    /\ started < MaxStarted
    /\ started' = started + 1
    /\ Set(p, [Idle EXCEPT !.pc = "gs_date", !.op = "status", !.token = ConcToken,
                           !.date = today_key(clock),
                           !.answer = select_daily_word(today_key(clock))])
    /\ UNCHANGED <<clock, STORE, heap, last, sg>>

\* GameGuess.post, lines 166-168, the request having passed the schema
StartGuess(p) ==
    \E raw \in SchemaAccepted :
        /\ threads[p].pc = "idle"
        /\ started < MaxStarted
        /\ started' = started + 1
        /\ Set(p, [Idle EXCEPT !.pc = "gs_date", !.op = "guess", !.token = ConcToken,
                               !.raw = raw, !.date = today_key(clock),
                               !.answer = select_daily_word(today_key(clock))])
        /\ UNCHANGED <<clock, STORE, heap, last, sg>>

\* get_state_for_today, line 49
GsDate(p) ==
    /\ threads[p].pc = "gs_date"
    /\ Set(p, [threads[p] EXCEPT !.pc = "gs_tok", !.gdate = today_key(clock)])
    /\ UNCHANGED <<clock, STORE, heap, last, started, sg>>

\* get_state_for_today, line 50
GsTok(p) ==
    /\ threads[p].pc = "gs_tok"
    /\ Set(p, [threads[p] EXCEPT
                  !.pc = IF threads[p].token \in DOMAIN STORE THEN "gs_chk" ELSE "gs_newtok"])
    /\ UNCHANGED <<clock, STORE, heap, last, started, sg>>

\* get_state_for_today, line 51
GsNewTok(p) ==
    /\ threads[p].pc = "gs_newtok"
    /\ STORE' = IF threads[p].token \in DOMAIN STORE
                 THEN [STORE EXCEPT ![threads[p].token] = EmptyDict]
                 ELSE (threads[p].token :> EmptyDict) @@ STORE
    /\ Set(p, [threads[p] EXCEPT !.pc = "gs_chk"])
    /\ UNCHANGED <<clock, heap, last, started, sg>>

\* get_state_for_today, line 52
GsChk(p) ==
    /\ threads[p].pc = "gs_chk"
    /\ Set(p, [threads[p] EXCEPT
                  !.pc = IF threads[p].gdate \in DOMAIN STORE[threads[p].token]
                         THEN "gs_ret" ELSE "gs_new"])
    /\ UNCHANGED <<clock, STORE, heap, last, started, sg>>

\* get_state_for_today, line 53
GsNew(p) ==
    /\ threads[p].pc = "gs_new"
    /\ LET t == threads[p]
           addr == NewAddress(heap, t.token, t.gdate)
       IN  /\ heap' = (addr :> NewRecord) @@ heap
           /\ STORE' = [STORE EXCEPT ![t.token] =
                           IF t.gdate \in DOMAIN @ THEN [@ EXCEPT ![t.gdate] = addr]
                                                    ELSE (t.gdate :> addr) @@ @]
    /\ Set(p, [threads[p] EXCEPT !.pc = "gs_ret"])
    /\ UNCHANGED <<clock, last, started, sg>>

\* get_state_for_today, line 54; the lookup raises KeyError when another
\* thread has replaced the session's dict in the meantime
GsRet(p) ==
    /\ threads[p].pc = "gs_ret"
    /\ LET t == threads[p] IN
       IF t.gdate \in DOMAIN STORE[t.token]
       THEN Set(p, [t EXCEPT !.state = STORE[t.token][t.gdate],
                             !.pc = IF t.op = "status" THEN "g_read" ELSE "p_fin"])
       ELSE Set(p, [t EXCEPT !.pc = "done", !.resp = [outcome |-> "key_error"]])
    /\ UNCHANGED <<clock, STORE, heap, last, started, sg>>

\* GameStatus.get, lines 130-152
GRead(p) ==
    /\ threads[p].pc = "g_read"
    /\ LET t == threads[p] IN
       Set(p, [t EXCEPT !.pc = "done",
                        !.resp = [outcome |-> "ok",
                                  payload |-> status_payload(heap[t.state], t.date, t.answer)]])
    /\ UNCHANGED <<clock, STORE, heap, last, started, sg>>

\* GameGuess.post, lines 171-188: the finished check, then the validation
\* and the scoring, which touch only locals
PFin(p) ==
    /\ threads[p].pc = "p_fin"
    /\ LET t == threads[p]
           guess == normalise(t.raw)
       IN  IF heap[t.state].finished
           THEN Set(p, [t EXCEPT !.pc = "done",
                                 !.resp = [outcome |-> "ok",
                                           payload |-> finished_payload(heap[t.state])]])
           ELSE IF guess_invalid(guess)
           THEN Set(p, [t EXCEPT !.pc = "done", !.resp = [outcome |-> "validation_error"]])
           ELSE Set(p, [t EXCEPT !.pc = "p_append",
                                 !.feedback = score_guess(guess, t.answer)])
    /\ UNCHANGED <<clock, STORE, heap, last, started, sg>>

\* GameGuess.post, lines 189-192
PAppend(p) ==
    /\ threads[p].pc = "p_append"
    /\ LET t == threads[p] IN
       /\ heap' = [heap EXCEPT ![t.state].attempts =
                       list_append(@, [guess |-> normalise(t.raw), feedback |-> t.feedback])]
       /\ Set(p, [t EXCEPT !.pc = IF all_green(t.feedback) THEN "p_won_fin" ELSE "p_len"])
    /\ UNCHANGED <<clock, STORE, last, started, sg>>

\* GameGuess.post, line 193
PWonFin(p) ==
    /\ threads[p].pc = "p_won_fin"
    /\ heap' = [heap EXCEPT ![threads[p].state].finished = TRUE]
    /\ Set(p, [threads[p] EXCEPT !.pc = "p_won_won"])
    /\ UNCHANGED <<clock, STORE, last, started, sg>>

\* GameGuess.post, lines 194-196
PWonWon(p) ==
    /\ threads[p].pc = "p_won_won"
    /\ heap' = [heap EXCEPT ![threads[p].state].won = TRUE]
    /\ Set(p, [threads[p] EXCEPT !.pc = "p_resp", !.status = "won"])
    /\ UNCHANGED <<clock, STORE, last, started, sg>>

\* GameGuess.post, line 197 (and 202-204)
PLen(p) ==
    /\ threads[p].pc = "p_len"
    /\ LET t == threads[p] IN
       IF attempts_exhausted(Len(heap[t.state].attempts))
       THEN Set(p, [t EXCEPT !.pc = "p_lost_fin"])
       ELSE Set(p, [t EXCEPT !.pc = "p_resp", !.status = "in_progress"])
    /\ UNCHANGED <<clock, STORE, heap, last, started, sg>>

\* GameGuess.post, line 198
PLostFin(p) ==
    /\ threads[p].pc = "p_lost_fin"
    /\ heap' = [heap EXCEPT ![threads[p].state].finished = TRUE]
    /\ Set(p, [threads[p] EXCEPT !.pc = "p_lost_won"])
    /\ UNCHANGED <<clock, STORE, last, started, sg>>

\* GameGuess.post, lines 199-201
PLostWon(p) ==
    /\ threads[p].pc = "p_lost_won"
    /\ heap' = [heap EXCEPT ![threads[p].state].won = FALSE]
    /\ Set(p, [threads[p] EXCEPT !.pc = "p_resp", !.status = "lost"])
    /\ UNCHANGED <<clock, STORE, last, started, sg>>

\* GameGuess.post, lines 206-218
PResp(p) ==
    /\ threads[p].pc = "p_resp"
    /\ LET t == threads[p] IN
       Set(p, [t EXCEPT
           !.pc = "done",
           !.resp = [outcome |-> "ok",
                     payload |->
                       [feedback |-> t.feedback,
                        attempts_used |-> Len(heap[t.state].attempts),
                        max_attempts |-> MAX_ATTEMPTS,
                        status |-> t.status,
                        message |->
                          IF t.status = "won" THEN Msg("Correct!", <<>>)
                          ELSE IF t.status = "lost"
                               THEN Msg("No attempts left. The word was {answer}.", <<t.answer>>)
                               ELSE Msg("Good try! Keep going.", <<>>)]]])
    /\ UNCHANGED <<clock, STORE, heap, last, started, sg>>

\* The response is sent; the thread is free for the next request
Return(p) ==
    /\ threads[p].pc = "done"
    /\ Set(p, Idle)
    /\ UNCHANGED <<clock, STORE, heap, last, started, sg>>

\* The record of a session after k guesses that missed the word of day 0,
\* submitted one at a time
RECURSIVE Played(_)
Played(k) ==
    IF k = 0 THEN NewRecord
    ELSE post_on_record(Played(k - 1), <<"s","t","r","e","a","m">>,
                        select_daily_word(today_key(0))).state

\* The stores the threads start from: empty; or holding the session's record
\* of day 0 after 0..MAX_ATTEMPTS-1 missed guesses, on day 0 or on day 1
InitConc ==
    /\ last = NoRequest
    /\ threads = [p \in Threads |-> Idle]
    /\ started = 0
    /\ sg = NoScore
    /\ \/ /\ clock = 0
          /\ STORE = EmptyDict
          /\ heap = EmptyDict
       \/ \E k \in 0..(MAX_ATTEMPTS - 1), day \in 0..MaxDay :
            LET gs == get_state_for_today(EmptyDict, EmptyDict, ConcToken, today_key(0)) IN
            /\ clock = day
            /\ STORE = gs.STORE
            /\ heap = [gs.heap EXCEPT ![gs.state] = Played(k)]

NextConc ==
    \E p \in Threads :
          \/ StartStatus(p) \/ StartGuess(p)
          \/ GsDate(p) \/ GsTok(p) \/ GsNewTok(p) \/ GsChk(p) \/ GsNew(p) \/ GsRet(p)
          \/ GRead(p)
          \/ PFin(p) \/ PAppend(p) \/ PWonFin(p) \/ PWonWon(p)
          \/ PLen(p) \/ PLostFin(p) \/ PLostWon(p) \/ PResp(p)
          \/ Return(p)

SpecConc == InitConc /\ [][NextConc]_vars

WinningAttempt(entry) == \A i \in DOMAIN entry.feedback : entry.feedback[i] = "green"

\* C4: under interleaved submitGuess calls of one session, no record holds
\* more than MAX_ATTEMPTS attempts and no record holds a winning (all-green)
\* attempt twice.
C4_AtomicPerKey ==
    \A t \in DOMAIN STORE : \A d \in DOMAIN STORE[t] :
        LET attempts == heap[STORE[t][d]].attempts IN
        /\ Len(attempts) <= MAX_ATTEMPTS
        /\ Cardinality({i \in DOMAIN attempts : WinningAttempt(attempts[i])}) <= 1

----------------------------------------------------------------------------
(* Properties of Spec: one request at a time *)

\* The record of (token, date) as a request would find it: the stored one,
\* or the empty record that the first access creates
View(S, H, token, date) ==
    IF token \in DOMAIN S /\ date \in DOMAIN S[token] THEN H[S[token][date]] ELSE NewRecord

\* The record the last request was for, before and after the request
PreView == View(last.pre.STORE, last.pre.heap, last.token, last.sdate)
NowView == View(STORE, heap, last.token, last.sdate)

AllGreen(feedback) == feedback # <<>> /\ \A i \in DOMAIN feedback : feedback[i] = "green"

\* The guess as the specification normalises it, and its format rule
Trimmed(raw) == str_upper(str_strip(raw))
WellFormed(raw) ==
    /\ Len(Trimmed(raw)) = WORD_LENGTH
    /\ \A i \in DOMAIN Trimmed(raw) : CharIsAlpha(Trimmed(raw)[i])

Rejected == last.outcome \in {"unprocessable", "validation_error"}

AlreadyFinishedPayload(rec) ==
    [feedback |-> <<>>,
     attempts_used |-> Len(rec.attempts),
     max_attempts |-> MAX_ATTEMPTS,
     status |-> IF rec.won THEN "won" ELSE "lost",
     message |-> Msg("Game already finished for today.", <<>>)]

\* C1: with one request at a time, no record of the store ever holds more
\* than MAX_ATTEMPTS attempts.
C1_AttemptLimit ==
    \A t \in DOMAIN STORE : \A d \in DOMAIN STORE[t] :
        Len(heap[STORE[t][d]].attempts) <= MAX_ATTEMPTS

\* C1 witness: a guess was submitted for a record that already held
\* MAX_ATTEMPTS attempts, and the record still holds MAX_ATTEMPTS.
C1_Witness ==
    /\ last.op = "guess" /\ last.outcome = "ok"
    /\ Len(PreView.attempts) = MAX_ATTEMPTS
    /\ Len(NowView.attempts) = MAX_ATTEMPTS

\* C2: a submitGuess for a finished record leaves the record unchanged and
\* returns the reached status, the unchanged attempts_used, no feedback and
\* the fixed message -- for every guess submitted.
C2_FinishedIsFinal ==
    (last.op = "guess" /\ PreView.finished) =>
        /\ NowView = PreView
        /\ last.outcome = "ok"
        /\ last.payload = AlreadyFinishedPayload(PreView)

\* C3: on a record not yet finished, an accepted guess that is not all green
\* and is the k-th of its record returns in_progress for k < MAX_ATTEMPTS;
\* the MAX_ATTEMPTS-th returns lost, sets finished and not won, and its
\* message reveals the daily word of the record's date.
C3_LostAfterMaxAttempts ==
    (/\ last.op = "guess" /\ last.outcome = "ok" /\ ~PreView.finished
     /\ ~AllGreen(last.payload.feedback)) =>
        LET k == Len(PreView.attempts) + 1 IN
        /\ Len(NowView.attempts) = k
        /\ k < MAX_ATTEMPTS =>
              /\ last.payload.status = "in_progress"
              /\ ~NowView.finished /\ ~NowView.won
        /\ k = MAX_ATTEMPTS =>
              /\ last.payload.status = "lost"
              /\ NowView.finished /\ ~NowView.won
              /\ last.payload.message.args = <<select_daily_word(last.sdate)>>
        /\ k <= MAX_ATTEMPTS

\* C3 witness: the fifth non-winning guess of a record was just answered lost.
C3_Witness ==
    /\ last.op = "guess" /\ last.outcome = "ok" /\ ~PreView.finished
    /\ Len(NowView.attempts) = MAX_ATTEMPTS
    /\ last.payload.status = "lost"

\* C5: a submitGuess for a finished record gets the already-finished
\* response even when the guess is malformed.
C5_FinishedBeforeFormat ==
    (last.op = "guess" /\ PreView.finished /\ ~WellFormed(last.raw)) =>
        /\ ~Rejected
        /\ last.payload = AlreadyFinishedPayload(PreView)

\* The payload a getStatus of the last request's session returns now
StatusNow ==
    LET gs == get_state_for_today(STORE, heap, last.token, last.sdate)
    IN  status_payload(gs.heap[gs.state], last.sdate, select_daily_word(last.sdate))

\* C6: a malformed guess for a record not finished is rejected and records
\* nothing: the record is as before, and a getStatus that follows reports
\* the attempts_used of before.
C6_MalformedRecordsNothing ==
    (last.op = "guess" /\ ~PreView.finished /\ ~WellFormed(last.raw)) =>
        /\ Rejected
        /\ NowView = PreView
        /\ StatusNow.attempts_used = Len(PreView.attempts)

\* C6 witness: the too-short guess AB was rejected on a record in progress
\* that holds attempts.
C6_Witness ==
    /\ last.op = "guess" /\ last.raw = <<"A","B">> /\ Rejected
    /\ ~PreView.finished /\ Len(PreView.attempts) > 0
    /\ NowView = PreView

\* C7: on a record not finished, a guess is accepted exactly when, trimmed
\* and upper-cased, it has WORD_LENGTH alphabetic characters, and it is
\* stored in that form.
C7_AcceptedIffWellFormed ==
    (last.op = "guess" /\ ~PreView.finished) =>
        /\ ~Rejected <=> WellFormed(last.raw)
        /\ ~Rejected =>
              /\ Len(NowView.attempts) = Len(PreView.attempts) + 1
              /\ NowView.attempts[Len(NowView.attempts)].guess = Trimmed(last.raw)

\* C8: getStatus changes no record (the one it creates on first access is
\* empty), and a further getStatus of the same session on the same date
\* returns the same payload and changes nothing.
C8_StatusReadOnly ==
    last.op = "status" =>
        /\ \A a \in DOMAIN last.pre.heap : a \in DOMAIN heap /\ heap[a] = last.pre.heap[a]
        /\ \A t \in DOMAIN STORE : \A d \in DOMAIN STORE[t] :
              heap[STORE[t][d]] = View(last.pre.STORE, last.pre.heap, t, d)
        /\ \A t \in DOMAIN last.pre.STORE : \A d \in DOMAIN last.pre.STORE[t] :
              t \in DOMAIN STORE /\ d \in DOMAIN STORE[t]
              /\ STORE[t][d] = last.pre.STORE[t][d]
        /\ last.date = last.sdate =>
              LET gs == get_state_for_today(STORE, heap, last.token, last.sdate) IN
              /\ gs.STORE = STORE /\ gs.heap = heap
              /\ StatusNow = last.payload

\* C8 witness: getStatus answered for a record that holds attempts.
C8_Witness ==
    /\ last.op = "status" /\ last.date = last.sdate
    /\ Len(PreView.attempts) > 1
    /\ last.payload.attempts_used = Len(PreView.attempts)

----------------------------------------------------------------------------
(* Days and sessions *)

\* The date key of the UTC day the clock shows
DateNow == strftime_Ymd(utc_now(clock))

\* The last request was served by its handler
Served == last.op \in {"status", "guess"} /\ last.outcome # "unprocessable"

Stored(S, token, date) == token \in DOMAIN S /\ date \in DOMAIN S[token]

\* C11: a request uses the record of the UTC day it is served on; the first
\* one of a session on a new day finds that record fresh (no attempts, not
\* finished, not won), whatever the session's records of earlier days hold;
\* and the session's records of other days stay the same objects with the
\* same contents.
C11_NoCrossDayCarryOver ==
    Served =>
        /\ last.sdate = DateNow
        /\ Stored(STORE, last.token, DateNow)
        /\ ~Stored(last.pre.STORE, last.token, DateNow) =>
              LET rec == heap[STORE[last.token][DateNow]] IN
              IF last.op = "status"
              THEN /\ rec = NewRecord
                   /\ last.payload.attempts_used = 0
                   /\ last.payload.guesses = <<>>
                   /\ last.payload.status = "in_progress"
              ELSE IF last.outcome = "ok"
              THEN /\ Len(rec.attempts) = 1
                   /\ last.payload.attempts_used = 1
                   /\ rec.finished <=> rec.won
              ELSE rec = NewRecord
        /\ last.token \in DOMAIN last.pre.STORE =>
              \A d \in DOMAIN last.pre.STORE[last.token] :
                  d # DateNow =>
                      /\ Stored(STORE, last.token, d)
                      /\ STORE[last.token][d] = last.pre.STORE[last.token][d]
                      /\ heap[STORE[last.token][d]]
                            = last.pre.heap[last.pre.STORE[last.token][d]]

\* C11 witness: a session whose record of an earlier day is finished had its
\* first guess of the new day answered.
C11_Witness ==
    /\ Served /\ last.op = "guess" /\ last.outcome = "ok"
    /\ ~Stored(last.pre.STORE, last.token, DateNow)
    /\ last.token \in DOMAIN last.pre.STORE
    /\ \E d \in DOMAIN last.pre.STORE[last.token] :
          /\ d # DateNow
          /\ last.pre.heap[last.pre.STORE[last.token][d]].finished
    /\ last.payload.attempts_used = 1

----------------------------------------------------------------------------
(* select_daily_word called repeatedly (SpecWord) *)

InitWord ==
    /\ clock = 0
    /\ STORE = EmptyDict
    /\ heap = EmptyDict
    /\ last = NoRequest
    /\ threads = [p \in Threads |-> Idle]
    /\ started = 0
    /\ sg \in [key : DateKeys, words : {<<>>}]

\* One more call of select_daily_word(key); its result is kept
SelectWord ==
    /\ Len(sg.words) < MaxCalls
    /\ sg' = [sg EXCEPT !.words = Append(@, select_daily_word(sg.key))]
    /\ UNCHANGED <<clock, STORE, heap, last, threads, started>>

NextWord == SelectWord

SpecWord == InitWord /\ [][NextWord]_vars

\* C12: every call of select_daily_word for a date key returns the same
\* word, an element of WORD_LIST of WORD_LENGTH letters.
C12_DailyWordDeterministic ==
    \A i \in DOMAIN sg.words :
        /\ \E j \in DOMAIN WORD_LIST : sg.words[i] = WORD_LIST[j]
        /\ Len(sg.words[i]) = WORD_LENGTH
        /\ sg.words[i] = sg.words[1]

\* C12 witness: select_daily_word was called MaxCalls times for a date key
\* of February 2024.
C12_Witness ==
    /\ Len(sg.words) = MaxCalls
    /\ sg.key[5] = "0" /\ sg.key[6] = "2"

----------------------------------------------------------------------------
(* Properties of SpecConc: interleaved requests of one session *)

\* C13: under interleaved submitGuess calls of one session, no step turns a
\* record's won flag from true to false, and no step appends an attempt to a
\* record whose finished flag is true.
C13_TerminalStaysTerminal ==
    [][\A a \in DOMAIN heap :
          /\ heap[a].won => heap'[a].won
          /\ heap[a].finished => heap'[a].attempts = heap[a].attempts]_vars

\* C14: under interleaved requests of one session, the record a handler
\* obtained from get_state_for_today is the instance the store holds for the
\* session and date, and every attempt a submitGuess returned feedback for is
\* in the record the store holds (the one a later getStatus reads).
C14_SameRecordInstance ==
    \A p \in Threads :
        LET t == threads[p] IN
        /\ t.resp.outcome # "key_error"
        /\ t.state # <<>> =>
              /\ Stored(STORE, t.token, t.gdate)
              /\ STORE[t.token][t.gdate] = t.state
        /\ (/\ t.pc = "done" /\ t.op = "guess" /\ t.resp.outcome = "ok"
            /\ t.resp.payload.feedback # <<>>) =>
              /\ Stored(STORE, t.token, t.gdate)
              /\ \E i \in DOMAIN heap[STORE[t.token][t.gdate]].attempts :
                    heap[STORE[t.token][t.gdate]].attempts[i]
                        = [guess |-> normalise(t.raw), feedback |-> t.resp.payload.feedback]

----------------------------------------------------------------------------
(* Properties of Spec: the shape of the records *)

\* The records the store holds
Records == UNION {{heap[STORE[t][d]] : d \in DOMAIN STORE[t]} : t \in DOMAIN STORE}

NoneAllGreen(rec) == \A i \in DOMAIN rec.attempts : ~AllGreen(rec.attempts[i].feedback)

InProgressShape(rec) ==
    /\ ~rec.finished /\ ~rec.won
    /\ Len(rec.attempts) < MAX_ATTEMPTS
    /\ NoneAllGreen(rec)

WonShape(rec) ==
    /\ rec.finished /\ rec.won
    /\ rec.attempts # <<>>
    /\ AllGreen(rec.attempts[Len(rec.attempts)].feedback)

LostShape(rec) ==
    /\ rec.finished /\ ~rec.won
    /\ Len(rec.attempts) = MAX_ATTEMPTS
    /\ NoneAllGreen(rec)

\* C15: with one request at a time every record is in exactly one of the
\* shapes in_progress, won and lost; in particular won implies finished.
C15_RecordShapes ==
    \A rec \in Records :
        /\ Cardinality({n \in 1..3 : <<InProgressShape(rec), WonShape(rec), LostShape(rec)>>[n]}) = 1
        /\ rec.won => rec.finished

\* C15 witness: the store holds a won record, a lost record and a record in
\* progress.
C15_Witness ==
    /\ \E rec \in Records : WonShape(rec)
    /\ \E rec \in Records : LostShape(rec)
    /\ \E rec \in Records : InProgressShape(rec)

\* The positions of a record's all-green attempts
GreenAttempts(rec) == {i \in DOMAIN rec.attempts : AllGreen(rec.attempts[i].feedback)}

\* C16: with one request at a time a record holds at most one all-green
\* attempt, an all-green attempt is the last of its record, and won is true
\* exactly when the record's last attempt is all green.
C16_SingleWinningAttempt ==
    \A rec \in Records :
        /\ Cardinality(GreenAttempts(rec)) <= 1
        /\ \A i \in GreenAttempts(rec) : i = Len(rec.attempts)
        /\ rec.won <=> Len(rec.attempts) \in GreenAttempts(rec)

\* C16 witness: a guess was submitted for a record won at its third attempt
\* or later, and the winning attempt is still the record's last.
C16_Witness ==
    /\ last.op = "guess" /\ last.outcome = "ok"
    /\ PreView.won /\ Len(PreView.attempts) > 2
    /\ GreenAttempts(NowView) = {Len(NowView.attempts)}

IsPrefix(s, t) == Len(s) <= Len(t) /\ SubSeq(t, 1, Len(s)) = s

\* C17: an accepted guess on a record not finished extends the record's
\* attempts by one element at the end, the normalised guess with the feedback
\* returned, and returns the new length as attempts_used; no request removes
\* or moves an attempt of any record; and getStatus lists the guesses and
\* the feedback in the order of the record, with its length as attempts_used.
C17_AppendOnly ==
    /\ (last.op = "guess" /\ last.outcome = "ok" /\ ~PreView.finished) =>
          /\ NowView.attempts
                = Append(PreView.attempts,
                         [guess |-> Trimmed(last.raw), feedback |-> last.payload.feedback])
          /\ last.payload.attempts_used = Len(NowView.attempts)
          /\ StatusNow.guesses = [i \in DOMAIN NowView.attempts |-> NowView.attempts[i].guess]
          /\ StatusNow.attempts = [i \in DOMAIN NowView.attempts |-> NowView.attempts[i].feedback]
          /\ StatusNow.attempts_used = Len(NowView.attempts)
    /\ last.op # "none" =>
          \A t \in DOMAIN last.pre.STORE : \A d \in DOMAIN last.pre.STORE[t] :
              IsPrefix(last.pre.heap[last.pre.STORE[t][d]].attempts,
                       View(STORE, heap, t, d).attempts)
    /\ last.op = "status" =>
          /\ last.payload.guesses = [i \in DOMAIN NowView.attempts |-> NowView.attempts[i].guess]
          /\ last.payload.attempts = [i \in DOMAIN NowView.attempts |-> NowView.attempts[i].feedback]
          /\ last.payload.attempts_used = Len(NowView.attempts)

\* C17 witness: the third guess of a record, differing from the second, was
\* just accepted.
C17_Witness ==
    /\ last.op = "guess" /\ last.outcome = "ok" /\ ~PreView.finished
    /\ Len(PreView.attempts) = 2
    /\ Len(NowView.attempts) = 3
    /\ NowView.attempts[3].guess # NowView.attempts[2].guess

\* The status a record is in
RecordStatus(rec) ==
    IF rec.won THEN "won" ELSE IF rec.finished THEN "lost" ELSE "in_progress"

\* C18: a getStatus that follows a submitGuess returns the status and the
\* attempts_used that submitGuess returned; every getStatus returns the
\* status and the number of attempts of the record as it found it
\* (in_progress and 0 when no guess was made); and when it returns lost its
\* message carries the daily word of the record's date.
C18_StatusReportsRecord ==
    /\ (last.op = "guess" /\ last.outcome = "ok") =>
          /\ StatusNow.status = last.payload.status
          /\ StatusNow.attempts_used = last.payload.attempts_used
    /\ last.op = "status" =>
          /\ last.payload.status = RecordStatus(PreView)
          /\ last.payload.attempts_used = Len(PreView.attempts)
          /\ PreView.attempts = <<>> =>
                last.payload.status = "in_progress" /\ last.payload.attempts_used = 0
          /\ last.payload.status = "lost" =>
                /\ last.payload.message.args = <<select_daily_word(last.sdate)>>
                /\ last.payload.date = last.sdate

\* C18 witness: getStatus returned lost for a record that holds MAX_ATTEMPTS
\* attempts.
C18_Witness ==
    /\ last.op = "status" /\ last.payload.status = "lost"
    /\ last.payload.attempts_used = MAX_ATTEMPTS

\* C19: every attempt of the record of (token, d) carries the feedback of
\* its guess against the daily word of d, and a lost response carries the
\* daily word of the date of the record that became lost.
C19_AnswerOfRecordDate ==
    /\ \A t \in DOMAIN STORE : \A d \in DOMAIN STORE[t] :
          \A i \in DOMAIN heap[STORE[t][d]].attempts :
              LET entry == heap[STORE[t][d]].attempts[i] IN
              entry.feedback = score_guess(entry.guess, select_daily_word(d))
    /\ (last.op = "guess" /\ last.outcome = "ok" /\ last.payload.status = "lost"
        /\ ~PreView.finished) =>
          last.payload.message.args = <<select_daily_word(last.sdate)>>

\* C20: a request of one session leaves every other session's records
\* unchanged, for every date, whatever it is answered; and the status and
\* attempts_used a session is shown are those of its own record.
C20_SessionIsolation ==
    last.op # "none" =>
        /\ \A t \in DOMAIN last.pre.STORE :
              t # last.token =>
                  /\ t \in DOMAIN STORE
                  /\ STORE[t] = last.pre.STORE[t]
                  /\ \A d \in DOMAIN STORE[t] :
                        heap[STORE[t][d]] = last.pre.heap[last.pre.STORE[t][d]]
        /\ \A t \in DOMAIN STORE : t # last.token => t \in DOMAIN last.pre.STORE
        /\ (last.outcome = "ok") =>
              /\ last.payload.attempts_used = Len(NowView.attempts)
              /\ last.payload.status = RecordStatus(NowView)

\* C20 witness: a guess of one session was accepted while another session
\* holds a record with attempts for the same date.
C20_Witness ==
    /\ last.op = "guess" /\ last.outcome = "ok" /\ ~PreView.finished
    /\ \E t \in DOMAIN last.pre.STORE :
          /\ t # last.token
          /\ last.sdate \in DOMAIN STORE[t]
          /\ Len(heap[STORE[t][last.sdate]].attempts) > 1
          /\ Len(heap[STORE[t][last.sdate]].attempts) # Len(NowView.attempts)

====
